---- MODULE Spec2Model ----
(***************************************************************************)
(* Model of scripts/update_market_pulse.py: one run of main() loads the    *)
(* previous snapshot, upserts seven indicators in a fixed order (usdtry,   *)
(* bdi, the four Freightos lanes, wci) and rewrites data/market.json.      *)
(*                                                                         *)
(* Conventions.  A Python value that may be None is a sequence of length   *)
(* at most one: None is << >> and the number v is <<v>>.  A dict of items  *)
(* is a sequence of item records in insertion order (Python dicts keep     *)
(* it).  The arrows in the Freightos display names are written "->".       *)
(***************************************************************************)
EXTENDS Integers, Sequences, FiniteSets, TLC

VARIABLES pc, exc, run, now, disk, manual_file, existing, items_by_key, cand, prev

vars == <<pc, exc, run, now, disk, manual_file, existing, items_by_key, cand, prev>>

\* ------------------------------------------------------------------ bounds

\* Fetched numbers range over 1..MaxValue.
MaxValue == 2
\* Freightos lane prices range over 1..MaxLaneValue.
MaxLaneValue == 1
\* Number of consecutive runs of the growth scenario.
MaxRuns == 125
\* Number of consecutive runs of the replay scenario.
RerunRuns == 2

\* ------------------------------------------------------- program constants

\* append_series keeps the last 120 points.
KEEP == 120

None == << >>
Some(v) == <<v>>
Values == 1 .. MaxValue
LaneValues == 1 .. MaxLaneValue

FREIGHTOS_PAGE == "https://www.freightos.com/freight-resources/container-shipping-cost-calculator-free-tool/"
TE_SITE == "https://tradingeconomics.com/"

Lanes == {"fbx01", "fbx03", "fbx11", "fbx13"}
LaneOrder == <<"fbx01", "fbx03", "fbx11", "fbx13">>
AutoKeys == {"usdtry", "bdi"} \cup Lanes
Keys == AutoKeys \cup {"wci"}

LaneName(k) ==
    CASE k = "fbx01" -> "Freightos FBX01 (Asia -> US West)"
      [] k = "fbx03" -> "Freightos FBX03 (Asia -> US East)"
      [] k = "fbx11" -> "Freightos FBX11 (Asia -> N. Europe)"
      [] k = "fbx13" -> "Freightos FBX13 (Asia -> Med)"

\* ------------------------------------------------------------ dict helpers

\* Position of the item stored under key, 0 when the key is absent (a dict
\* holds a key once).
IndexOf(items, key) ==
    IF \E i \in 1 .. Len(items) : items[i].key = key
    THEN CHOOSE i \in 1 .. Len(items) : items[i].key = key
    ELSE 0

HasKey(items, key) == IndexOf(items, key) # 0

Get(items, key) == items[IndexOf(items, key)]

KeysOf(items) == {items[i].key : i \in 1 .. Len(items)}

\* Mutant of Put: the mapping is rebuilt around the item that is stored.
Put_drops_others(items, key, it) == <<it>>

\* d[key] = it: replace in place, or insert at the end.
Put(items, key, it) ==
    IF HasKey(items, key)
    THEN [items EXCEPT ![IndexOf(items, key)] = it]
    ELSE Append(items, it)

RECURSIVE DictOf(_)
\* {it.get("key"): it for it in existing.get("items", [])}
DictOf(list) ==
    IF list = << >> THEN << >>
    ELSE LET front == DictOf(SubSeq(list, 1, Len(list) - 1))
             it == list[Len(list)]
         IN Put(front, it.key, it)

\* ---------------------------------------------------------- append_series

Min(a, b) == IF a <= b THEN a ELSE b

\* existing_series[-120:]
LastN(s, n) == IF Len(s) <= n THEN s ELSE SubSeq(s, Len(s) - n + 1, Len(s))

\* Mutant of append_series: no early return on None, so a failed fetch records
\* a point (0 stands for the null it would hold).
append_series_records_null(existing_series, value, t) ==
    IF value = None THEN LastN(Append(existing_series, [t |-> t, v |-> 0]), KEEP)
    ELSE IF existing_series # << >>
            /\ existing_series[Len(existing_series)].v = value[1]
         THEN existing_series
    ELSE LastN(Append(existing_series, [t |-> t, v |-> value[1]]), KEEP)

\* Mutant of append_series: the slice keeps the first 120 points,
\* existing_series[:120].
append_series_keeps_oldest(existing_series, value, t) ==
    IF value = None THEN existing_series
    ELSE IF existing_series # << >>
            /\ existing_series[Len(existing_series)].v = value[1]
         THEN existing_series
    ELSE SubSeq(Append(existing_series, [t |-> t, v |-> value[1]]), 1,
                Min(Len(existing_series) + 1, KEEP))

\* Mutant of append_series: no comparison with the last point.
append_series_no_dedup(existing_series, value, t) ==
    IF value = None THEN existing_series
    ELSE LastN(Append(existing_series, [t |-> t, v |-> value[1]]), KEEP)

append_series(existing_series, value, t) ==
    IF value = None THEN existing_series
    ELSE IF existing_series # << >>
            /\ existing_series[Len(existing_series)].v = value[1]
         THEN existing_series
    ELSE LastN(Append(existing_series, [t |-> t, v |-> value[1]]), KEEP)

\* ------------------------------------------------------------------ upsert

\* Mutant of upsert: source_url is overwritten like the other metadata.
upsert_overwrites_source(items, key, name, unit, fmt, value, source_url, t) ==
    LET it == IF HasKey(items, key) THEN Get(items, key)
              ELSE [key |-> key, name |-> name, unit |-> unit, format |-> fmt,
                    source_url |-> source_url, series |-> << >>]
        new == [it EXCEPT !.name = name,
                          !.unit = unit,
                          !.format = fmt,
                          !.source_url = source_url,
                          !.series = append_series(@, value, t)]
    IN Put(items, key, new)

upsert(items, key, name, unit, fmt, value, source_url, t) ==
    LET it == IF HasKey(items, key) THEN Get(items, key)
              ELSE [key |-> key, name |-> name, unit |-> unit, format |-> fmt,
                    source_url |-> source_url, series |-> << >>]
        new == [it EXCEPT !.name = name,
                          !.unit = unit,
                          !.format = fmt,
                          !.source_url = IF source_url # "" THEN source_url ELSE @,
                          !.series = append_series(@, value, t)]
    IN Put(items, key, new)

\* ------------------------------------------------- TradingEconomics quotes

\* What the search-then-quote pipeline of one indicator meets:
\*   error     a request or its JSON decoding raises
\*   nosymbol  pick_symbol finds no symbol, so the quote is {}
\*   null      the quote has no "Last", or "Last" is null
\*   num       "Last" is the number n
\*   str       "Last" is a string spelling the number n
\*   bad       "Last" is a string that spells no number
TeOutcomes ==
    {[kind |-> k, n |-> 0] : k \in {"error", "nosymbol", "null", "bad"}}
        \cup {[kind |-> k, n |-> v] : k \in {"num", "str"}, v \in Values}

\* The value the try/except block hands to upsert: float(Last) when Last is
\* not None, None when it is, None from the except branch.
te_value(o) ==
    CASE o.kind = "error" -> None
      [] o.kind = "nosymbol" -> None
      [] o.kind = "null" -> None
      [] o.kind = "num" -> Some(o.n)
      [] o.kind = "str" -> Some(o.n)
      [] o.kind = "bad" -> None

\* ------------------------------------------------------ parse_freightos_fbx

\* The characters group(1) of a lane pattern can hold, [0-9,]: the digit d is
\* <<d>> and the comma is << >>.
Comma == << >>
Digit(d) == <<d>>

RECURSIVE DigitsValue(_)
\* float() of a string of decimal digits.
DigitsValue(ds) ==
    IF ds = << >> THEN 0
    ELSE 10 * DigitsValue(SubSeq(ds, 1, Len(ds) - 1)) + ds[Len(ds)][1]

\* What re.search finds for one lane: no match, or the captured group.
NoMatch == [found |-> FALSE, group |-> << >>]
LaneMatches ==
    {NoMatch}
        \cup {[found |-> TRUE, group |-> g] :
                g \in {<<Comma>>} \cup {<<Digit(v)>> : v \in LaneValues}
                        \cup {<<Digit(v), Comma>> : v \in LaneValues}}

lane(m) ==
    IF ~m.found THEN None
    ELSE LET num == SelectSeq(m.group, LAMBDA c : c # Comma)
         IN IF num = << >> THEN None ELSE Some(DigitsValue(num))

parse_freightos_fbx(html) == [k \in Lanes |-> lane(html[k])]

\* The page fetch raises, or returns a page with one match result per lane.
FbxDown == [ok |-> FALSE, html |-> [k \in Lanes |-> NoMatch]]
FbxPage(m01, m03, m11, m13) ==
    [ok |-> TRUE,
     html |-> [k \in Lanes |-> CASE k = "fbx01" -> m01 [] k = "fbx03" -> m03
                                  [] k = "fbx11" -> m11 [] k = "fbx13" -> m13]]
FbxOutcomes == {FbxDown} \cup {[ok |-> TRUE, html |-> h] : h \in [Lanes -> LaneMatches]}

\* The four values the try/except block hands to upsert.
fbx_values(o) ==
    IF o.ok THEN parse_freightos_fbx(o.html) ELSE [k \in Lanes |-> None]

\* ------------------------------------------------------------- manual.json

NullValue == [kind |-> "null", n |-> 0]
NoWci == [value |-> NullValue, name |-> None, unit |-> None, source_url |-> None]
WciRecords ==
    {[value |-> val, name |-> m[1], unit |-> m[2], source_url |-> m[3]] :
        val \in {NullValue, [kind |-> "str", n |-> 0]}
                    \cup {[kind |-> "num", n |-> v] : v \in Values},
        m \in {<<None, None, None>>,
               <<Some("Drewry WCI composite"), Some("USD / FEU"),
                 Some("https://www.drewry.co.uk/wci")>>}}

\* data/manual.json: missing, not JSON, JSON that is no object, or an object
\* with or without a "drewry_wci" record.
ManualFiles ==
    {[kind |-> k, has_wci |-> FALSE, wci |-> NoWci] :
        k \in {"missing", "unparsable", "notmap", "ok"}}
        \cup {[kind |-> "ok", has_wci |-> TRUE, wci |-> w] : w \in WciRecords}

\* dict.get(field, default) on an optional field.
GetOr(field, default) == IF field = None THEN default ELSE field[1]

\* Mutant of wci_value: the type test accepts strings instead of numbers.
wci_value_rejects_numbers(val) == IF val.kind = "str" THEN Some(val.n) ELSE None

\* float(wci_val) if isinstance(wci_val, (int, float)) else None
wci_value(val) == IF val.kind = "num" THEN Some(val.n) ELSE None

\* manual.get("drewry_wci", {})
wci_of(file) == IF file.kind = "ok" /\ file.has_wci THEN file.wci ELSE NoWci

\* ------------------------------------------------------------ market.json

\* load_json's default for OUT_PATH.
EmptyDoc == [generated_at |-> None, items |-> << >>]

AbsentDisk == [state |-> "absent", doc |-> EmptyDoc]
\* The file after open(path, "w") and before json.dump has finished.
PartialDisk == [state |-> "partial", doc |-> EmptyDoc]
OkDisk(doc) == [state |-> "ok", doc |-> doc]

Item(key, name, unit, fmt, source_url, series) ==
    [key |-> key, name |-> name, unit |-> unit, format |-> fmt,
     source_url |-> source_url, series |-> series]

OneSeries == <<[t |-> 0, v |-> 1]>>
FullSeries == [i \in 1 .. KEEP |-> [t |-> 0, v |-> 2 - (i % 2)]]

\* A snapshot of an earlier run: every indicator has one point; usdtry still
\* carries an older display name and wci a source the operator once gave.
DocOne ==
    [generated_at |-> Some(0),
     items |-> <<Item("usdtry", "USDTRY", "TRY", "number", TE_SITE, OneSeries),
                 Item("bdi", "Baltic Dry Index (BDI)", "Index points", "number",
                      TE_SITE, OneSeries),
                 Item("fbx01", LaneName("fbx01"), "USD / FEU", "usd",
                      FREIGHTOS_PAGE, OneSeries),
                 Item("fbx03", LaneName("fbx03"), "USD / FEU", "usd",
                      FREIGHTOS_PAGE, OneSeries),
                 Item("fbx11", LaneName("fbx11"), "USD / FEU", "usd",
                      FREIGHTOS_PAGE, OneSeries),
                 Item("fbx13", LaneName("fbx13"), "USD / FEU", "usd",
                      FREIGHTOS_PAGE, OneSeries),
                 Item("wci", "Drewry WCI", "USD / 40ft", "usd",
                      "https://www.drewry.co.uk/", OneSeries)>>]

\* A snapshot whose usdtry and fbx01 histories are full, with an indicator
\* ("brent") that this script does not process.
DocFull ==
    [generated_at |-> Some(0),
     items |-> <<Item("brent", "Brent crude", "USD / bbl", "usd", TE_SITE,
                      OneSeries),
                 Item("usdtry", "USD/TRY FX", "TRY per USD", "fx", TE_SITE,
                      FullSeries),
                 Item("fbx01", LaneName("fbx01"), "USD / FEU", "usd",
                      FREIGHTOS_PAGE, FullSeries)>>]

PriorDisks == {AbsentDisk, PartialDisk, OkDisk(DocOne), OkDisk(DocFull)}

\* ----------------------------------------------------------------- main()

NoCand == [k \in {} |-> None]

Running == exc = "none"

\* Lines 136-137: load the previous snapshot and index its items by key.
\* load_json catches FileNotFoundError only.
LoadExisting ==
    /\ pc = "load" /\ Running
    /\ IF disk.state = "partial"
       THEN /\ exc' = "JSONDecodeError"
            /\ UNCHANGED <<pc, existing, items_by_key>>
       ELSE /\ existing' = IF disk.state = "absent" THEN EmptyDoc ELSE disk.doc
            /\ items_by_key' = DictOf(existing'.items)
            /\ pc' = "usdtry"
            /\ exc' = exc
    /\ UNCHANGED <<run, now, disk, manual_file, cand, prev>>

\* Lines 158-172.
Usdtry(o) ==
    /\ pc = "usdtry" /\ Running
    /\ cand' = ("usdtry" :> te_value(o)) @@ cand
    /\ items_by_key' = upsert(items_by_key, "usdtry", "USD/TRY FX", "TRY per USD",
                              "fx", te_value(o), TE_SITE, now)
    /\ pc' = "bdi"
    /\ UNCHANGED <<exc, run, now, disk, manual_file, existing, prev>>

\* Lines 175-189.
Bdi(o) ==
    /\ pc = "bdi" /\ Running
    /\ cand' = ("bdi" :> te_value(o)) @@ cand
    /\ items_by_key' = upsert(items_by_key, "bdi", "Baltic Dry Index (BDI)",
                              "Index points", "number", te_value(o), TE_SITE, now)
    /\ pc' = "fbx"
    /\ UNCHANGED <<exc, run, now, disk, manual_file, existing, prev>>

RECURSIVE UpsertLanes_stops_at_failure(_, _, _, _)
\* Mutant of UpsertLanes: the first lane without a value ends the block, and
\* the lanes after it are upserted with None.
UpsertLanes_stops_at_failure(items, order, values, t) ==
    IF order = << >> THEN items
    ELSE LET k == Head(order)
             rest == IF values[k] = None THEN [j \in Lanes |-> None] ELSE values
         IN UpsertLanes_stops_at_failure(
                upsert(items, k, LaneName(k), "USD / FEU", "usd", values[k],
                       FREIGHTOS_PAGE, t),
                Tail(order), rest, t)

RECURSIVE UpsertLanes(_, _, _, _)
\* The four upsert calls of lines 197-200 (or 202-205), in order.
UpsertLanes(items, order, values, t) ==
    IF order = << >> THEN items
    ELSE UpsertLanes(upsert(items, Head(order), LaneName(Head(order)), "USD / FEU",
                            "usd", values[Head(order)], FREIGHTOS_PAGE, t),
                     Tail(order), values, t)

\* Lines 192-205.
Fbx(o) ==
    /\ pc = "fbx" /\ Running
    /\ cand' = fbx_values(o) @@ cand
    /\ items_by_key' = UpsertLanes(items_by_key, LaneOrder, fbx_values(o), now)
    /\ pc' = "manual"
    /\ UNCHANGED <<exc, run, now, disk, manual_file, existing, prev>>

\* Lines 208-218.  json.load raises on a file that is not JSON, and
\* manual.get raises on JSON that is not an object; neither is caught.
Manual ==
    /\ pc = "manual" /\ Running
    /\ IF manual_file.kind \in {"unparsable", "notmap"}
       THEN /\ exc' = IF manual_file.kind = "unparsable" THEN "JSONDecodeError"
                      ELSE "AttributeError"
            /\ UNCHANGED <<pc, cand, items_by_key>>
       ELSE LET wci == wci_of(manual_file)
                val == wci_value(wci.value)
            IN /\ cand' = ("wci" :> val) @@ cand
               /\ items_by_key' = upsert(items_by_key, "wci",
                                         GetOr(wci.name, "Drewry WCI (manual)"),
                                         GetOr(wci.unit, "USD / 40ft"), "usd", val,
                                         GetOr(wci.source_url, ""), now)
               /\ pc' = "save"
               /\ exc' = exc
    /\ UNCHANGED <<run, now, disk, manual_file, existing, prev>>

\* save_json, line 41: open(path, "w") truncates the file, or raises and
\* leaves it alone.
SaveOpen(ok) ==
    /\ pc = "save" /\ Running
    /\ IF ok
       THEN /\ disk' = PartialDisk
            /\ pc' = "write"
            /\ exc' = exc
       ELSE /\ exc' = "OSError"
            /\ UNCHANGED <<pc, disk>>
    /\ UNCHANGED <<run, now, manual_file, existing, items_by_key, cand, prev>>

\* save_json, lines 42-43: json.dump and the final newline complete, or the
\* write raises (or the process is stopped) with the file partly written.
SaveWrite(ok) ==
    /\ pc = "write" /\ Running
    /\ IF ok
       THEN /\ disk' = OkDisk([generated_at |-> Some(now), items |-> items_by_key])
            /\ pc' = "done"
            /\ exc' = exc
       ELSE /\ exc' = "OSError"
            /\ UNCHANGED <<pc, disk>>
    /\ UNCHANGED <<run, now, manual_file, existing, items_by_key, cand, prev>>

\* The scheduler starts the script again once the previous run has ended.
StartRun(limit) ==
    /\ pc = "done" \/ ~Running
    /\ run < limit
    /\ run' = run + 1
    /\ now' = now + 1
    /\ pc' = "load"
    /\ exc' = "none"
    /\ existing' = EmptyDoc
    /\ items_by_key' = << >>
    /\ cand' = NoCand
    /\ prev' = IF pc = "done" /\ Running THEN cand ELSE NoCand
    /\ UNCHANGED <<disk, manual_file>>

\* ---------------------------------------------------------- specifications

InitRun ==
    /\ pc = "load"
    /\ exc = "none"
    /\ run = 1
    /\ now = 1
    /\ existing = EmptyDoc
    /\ items_by_key = << >>
    /\ cand = NoCand
    /\ prev = NoCand

\* One run, from any previous snapshot, with every outcome of every fetch.
Init ==
    /\ InitRun
    /\ disk \in PriorDisks
    /\ manual_file \in ManualFiles

Next ==
    \/ LoadExisting
    \/ \E o \in TeOutcomes : Usdtry(o)
    \/ \E o \in TeOutcomes : Bdi(o)
    \/ \E o \in FbxOutcomes : Fbx(o)
    \/ Manual
    \/ \E ok \in BOOLEAN : SaveOpen(ok)
    \/ \E ok \in BOOLEAN : SaveWrite(ok)

Spec == Init /\ [][Next]_vars

\* Replay: the script runs again and every indicator gets the candidate value
\* it got in the run before (manual.json is readable, gives no display
\* metadata and is not edited in between, and every write succeeds).
Replays(k, v) == k \in DOMAIN prev => v = prev[k]

InitRerun ==
    /\ InitRun
    /\ disk \in {AbsentDisk, OkDisk(DocOne)}
    /\ manual_file \in {f \in ManualFiles :
                            f.kind \in {"missing", "ok"} /\ f.wci.name = None}

NextRerun ==
    \/ LoadExisting
    \/ \E o \in TeOutcomes : Replays("usdtry", te_value(o)) /\ Usdtry(o)
    \/ \E o \in TeOutcomes : Replays("bdi", te_value(o)) /\ Bdi(o)
    \/ (\A k \in Lanes : Replays(k, None)) /\ Fbx(FbxDown)
    \/ \E m01 \in LaneMatches : Replays("fbx01", lane(m01)) /\
         \E m03 \in LaneMatches : Replays("fbx03", lane(m03)) /\
          \E m11 \in LaneMatches : Replays("fbx11", lane(m11)) /\
           \E m13 \in LaneMatches : Replays("fbx13", lane(m13)) /\
            Fbx(FbxPage(m01, m03, m11, m13))
    \/ Manual
    \/ SaveOpen(TRUE)
    \/ SaveWrite(TRUE)
    \/ StartRun(RerunRuns)

RerunSpec == InitRerun /\ [][NextRerun]_vars

\* Growth: run after run, usdtry quotes a value it never quoted before (the
\* number of the run), the other sources are down and every write succeeds.
InitGrowth ==
    /\ InitRun
    /\ disk = AbsentDisk
    /\ manual_file = [kind |-> "missing", has_wci |-> FALSE, wci |-> NoWci]

NextGrowth ==
    \/ LoadExisting
    \/ Usdtry([kind |-> "num", n |-> run])
    \/ Bdi([kind |-> "error", n |-> 0])
    \/ Fbx(FbxDown)
    \/ Manual
    \/ SaveOpen(TRUE)
    \/ SaveWrite(TRUE)
    \/ StartRun(MaxRuns)

GrowthSpec == InitGrowth /\ [][NextGrowth]_vars

\* ------------------------------------------------------------ properties

SeriesOf(items, k) == IF HasKey(items, k) THEN Get(items, k).series ELSE << >>

\* The snapshot the run has written, once it has.
Written == pc = "done" /\ disk.state = "ok"

NoConsecutiveDuplicates(s) == \A i \in 1 .. Len(s) - 1 : s[i].v # s[i + 1].v

\* C1: an upsert whose value is null leaves the indicator's series exactly as
\* the previous snapshot had it (same entries, order and timestamps), in the
\* mapping and in the snapshot that is written.
NullUpsertKeepsSeries ==
    \A k \in DOMAIN cand :
        cand[k] = None =>
            /\ SeriesOf(items_by_key, k) = SeriesOf(existing.items, k)
            /\ Written => SeriesOf(disk.doc.items, k) = SeriesOf(existing.items, k)

NullUpsertWitness ==
    /\ Written
    /\ \E k \in DOMAIN cand :
        /\ cand[k] = None
        /\ Len(SeriesOf(existing.items, k)) = KEEP
        /\ SeriesOf(disk.doc.items, k) = SeriesOf(existing.items, k)

\* C2: no series ever holds more than 120 entries, and after N upserts of
\* pairwise distinct successive values (run n quotes usdtry = n at time n) the
\* usdtry series holds exactly the min(N, 120) most recent values, in the
\* order they were upserted.
BoundedFifo ==
    /\ \A i \in 1 .. Len(items_by_key) : Len(items_by_key[i].series) <= KEEP
    /\ \A i \in 1 .. Len(disk.doc.items) : Len(disk.doc.items[i].series) <= KEEP
    /\ pc # "load" =>
        LET n == IF "usdtry" \in DOMAIN cand THEN run ELSE run - 1
            m == Min(n, KEEP)
            s == SeriesOf(items_by_key, "usdtry")
        IN /\ Len(s) = m
           /\ \A i \in 1 .. m : s[i] = [t |-> n - m + i, v |-> n - m + i]
    /\ Written =>
        LET m == Min(run, KEEP)
            s == SeriesOf(disk.doc.items, "usdtry")
        IN /\ Len(s) = m
           /\ \A i \in 1 .. m : s[i].v = run - m + i

BoundedFifoWitness ==
    /\ Written
    /\ run > KEEP + 1
    /\ Len(SeriesOf(disk.doc.items, "usdtry")) = KEEP
    /\ SeriesOf(disk.doc.items, "usdtry")[1].v = run - KEEP + 1

\* C3: a non-null value is appended only if it differs from the value of the
\* series' last entry, and then as exactly one entry; a run that replays the
\* candidate values of the run before leaves every series as that run wrote
\* it; and no series holds two consecutive entries of equal value.
DedupNoConsecutive ==
    /\ \A i \in 1 .. Len(items_by_key) :
            NoConsecutiveDuplicates(items_by_key[i].series)
    /\ \A i \in 1 .. Len(disk.doc.items) :
            NoConsecutiveDuplicates(disk.doc.items[i].series)
    /\ \A k \in DOMAIN cand :
        cand[k] # None =>
            LET old == SeriesOf(existing.items, k)
                new == SeriesOf(items_by_key, k)
            IN IF old # << >> /\ old[Len(old)].v = cand[k][1]
               THEN new = old
               ELSE new = Append(old, [t |-> now, v |-> cand[k][1]])
    /\ (Written /\ DOMAIN prev = Keys) =>
        \A k \in Keys :
            /\ cand[k] = prev[k]
            /\ SeriesOf(items_by_key, k) = SeriesOf(existing.items, k)
            /\ SeriesOf(disk.doc.items, k) = SeriesOf(existing.items, k)
            /\ cand[k] # None =>
                LET s == SeriesOf(disk.doc.items, k)
                IN /\ s # << >>
                   /\ s[Len(s)].v = cand[k][1]
                   /\ Len(s) > 1 => s[Len(s) - 1].v # cand[k][1]

\* The same value was upserted in two runs in a row, after another value, and
\* the series ends with the single entry the first of the two runs appended.
DedupWitness ==
    /\ Written
    /\ run = 2
    /\ DOMAIN prev = Keys
    /\ \E k \in Keys :
        /\ cand[k] # None
        /\ prev[k] = cand[k]
        /\ Len(SeriesOf(disk.doc.items, k)) = 2
        /\ SeriesOf(disk.doc.items, k)[2] = [t |-> 1, v |-> cand[k][1]]

\* The arguments main() passes to upsert for each indicator.
ArgName(k) ==
    CASE k = "usdtry" -> "USD/TRY FX"
      [] k = "bdi" -> "Baltic Dry Index (BDI)"
      [] k \in Lanes -> LaneName(k)
      [] k = "wci" -> IF manual_file.kind = "ok" /\ manual_file.has_wci
                         /\ manual_file.wci.name # None
                      THEN manual_file.wci.name[1] ELSE "Drewry WCI (manual)"
ArgUnit(k) ==
    CASE k = "usdtry" -> "TRY per USD"
      [] k = "bdi" -> "Index points"
      [] k \in Lanes -> "USD / FEU"
      [] k = "wci" -> IF manual_file.kind = "ok" /\ manual_file.has_wci
                         /\ manual_file.wci.unit # None
                      THEN manual_file.wci.unit[1] ELSE "USD / 40ft"
ArgFormat(k) ==
    CASE k = "usdtry" -> "fx"
      [] k = "bdi" -> "number"
      [] k \in Lanes -> "usd"
      [] k = "wci" -> "usd"
ArgSource(k) ==
    CASE k \in {"usdtry", "bdi"} -> "https://tradingeconomics.com/"
      [] k \in Lanes -> FREIGHTOS_PAGE
      [] k = "wci" -> IF manual_file.kind = "ok" /\ manual_file.has_wci
                         /\ manual_file.wci.source_url # None
                      THEN manual_file.wci.source_url[1] ELSE ""

\* C4: after upsert(key, name, unit, format, value, source_url), for any value
\* including null, the indicator's name, unit and format are the arguments; its
\* source_url is the argument if that is non-empty and otherwise the source_url
\* it had before (the empty default when the indicator is new).
MetadataRefreshed ==
    \A k \in DOMAIN cand :
        /\ HasKey(items_by_key, k)
        /\ LET it == Get(items_by_key, k)
           IN /\ it.name = ArgName(k)
              /\ it.unit = ArgUnit(k)
              /\ it.format = ArgFormat(k)
              /\ it.source_url =
                    IF ArgSource(k) # "" THEN ArgSource(k)
                    ELSE IF HasKey(existing.items, k)
                         THEN Get(existing.items, k).source_url
                         ELSE ""

\* A null upsert of wci with no source_url renamed the indicator and kept the
\* source the previous snapshot recorded.
MetadataWitness ==
    /\ "wci" \in DOMAIN cand
    /\ cand["wci"] = None
    /\ ArgSource("wci") = ""
    /\ HasKey(existing.items, "wci")
    /\ Get(existing.items, "wci").name # Get(items_by_key, "wci").name
    /\ Get(items_by_key, "wci").source_url = "https://www.drewry.co.uk/"

PriorLast(k) ==
    LET old == SeriesOf(existing.items, k)
    IN IF old = << >> THEN None ELSE Some(old[Len(old)].v)

\* The series of k as this run's upsert of the value v leaves it when v is
\* new: the previous entries, the oldest evicted if there were 120, then one
\* entry of value v stamped now.
Gained(k, v) ==
    LET old == SeriesOf(existing.items, k)
        new == SeriesOf(items_by_key, k)
    IN /\ Len(new) = Min(Len(old) + 1, KEEP)
       /\ new[Len(new)] = [t |-> now, v |-> v]
       /\ \A i \in 1 .. Len(new) - 1 : new[i] = old[Len(old) - (Len(new) - 1) + i]

\* C5 as stated: when one auto-fetched indicator gets no value and another
\* gets the value v in the same run, the first keeps its prior series and the
\* second's series gains an entry with value v.
IsolationGainsEntry ==
    \A a \in DOMAIN cand \cap AutoKeys, b \in DOMAIN cand \cap AutoKeys :
        (cand[a] = None /\ cand[b] # None) =>
            /\ SeriesOf(items_by_key, a) = SeriesOf(existing.items, a)
            /\ Gained(b, cand[b][1])

\* C5 as amended: the second's series gains an entry with value v unless its
\* last entry already has value v, in which case it too is left unchanged.
IsolationUnlessDuplicate ==
    \A a \in DOMAIN cand \cap AutoKeys, b \in DOMAIN cand \cap AutoKeys :
        (cand[a] = None /\ cand[b] # None) =>
            /\ SeriesOf(items_by_key, a) = SeriesOf(existing.items, a)
            /\ IF PriorLast(b) = cand[b]
               THEN SeriesOf(items_by_key, b) = SeriesOf(existing.items, b)
               ELSE Gained(b, cand[b][1])

\* fbx01 found no price and kept its history while fbx03 gained an entry.
IsolationWitness ==
    /\ Lanes \subseteq DOMAIN cand
    /\ cand["fbx01"] = None
    /\ SeriesOf(items_by_key, "fbx01") # << >>
    /\ SeriesOf(items_by_key, "fbx01") = SeriesOf(existing.items, "fbx01")
    /\ cand["fbx03"] # None
    /\ PriorLast("fbx03") # cand["fbx03"]
    /\ Gained("fbx03", cand["fbx03"][1])

ManualUnreadable == manual_file.kind \in {"missing", "unparsable", "notmap"}

\* C6 as stated: a missing, unparsable or non-mapping manual.json is treated
\* as an empty override set: the run does not stop at the manual step and wci
\* is upserted with a null value.
ManualUnreadableIsEmpty ==
    ManualUnreadable =>
        /\ ~(pc = "manual" /\ ~Running)
        /\ pc \in {"save", "write", "done"} => cand["wci"] = None

\* C7 as stated: from the moment the run starts to write, the output file
\* holds the complete previous snapshot (or is still absent) or the complete
\* new one.
WriteAllOrNothing ==
    pc \in {"save", "write", "done"} =>
        \/ disk = AbsentDisk /\ existing = EmptyDoc
        \/ disk = OkDisk(existing)
        \/ disk = OkDisk([generated_at |-> Some(now), items |-> items_by_key])

\* C8 as stated: whatever fetches and extractions fail, the run does not
\* abort before the final snapshot write.
FetchFailuresNeverAbort ==
    ((\E k \in DOMAIN cand \cap AutoKeys : cand[k] = None) /\ ~Running) =>
        pc \in {"save", "write"}

OtherIndicatorsUntouched ==
    pc # "load" =>
        /\ KeysOf(items_by_key) = KeysOf(existing.items) \cup DOMAIN cand
        /\ \A i \in 1 .. Len(existing.items) :
            LET it == existing.items[i]
            IN /\ it.key \notin DOMAIN cand => Get(items_by_key, it.key) = it
               /\ Written =>
                    /\ HasKey(disk.doc.items, it.key)
                    /\ it.key \notin Keys => Get(disk.doc.items, it.key) = it

\* The run processed its seven indicators and wrote a snapshot that still
\* holds the indicator it does not process.
OtherIndicatorsWitness ==
    /\ Written
    /\ DOMAIN cand = Keys
    /\ HasKey(existing.items, "brent")
    /\ Get(disk.doc.items, "brent") = Get(existing.items, "brent")
    /\ Len(disk.doc.items) = Cardinality(Keys) + 1

====
